---- MODULE Spec2Model ----
(***************************************************************************)
(* Model of src/server.js: the booking intake handler                      *)
(* (POST /api/book-call), the one-shot Google Sheets authorization task    *)
(* started at module load, the saveToGoogleSheet wrapper and the phone     *)
(* normalisation of line 118.                                              *)
(*                                                                         *)
(* JavaScript values are tagged records; a string is a sequence of         *)
(* one-character strings, so that String.prototype.replace with a          *)
(* character-class regex is a filter over the sequence.                    *)
(*                                                                         *)
(* req.body is always an object here: express.json() and                   *)
(* express.urlencoded() (lines 38-39) leave an object on req.body, whose   *)
(* properties are JSON / form values.                                      *)
(***************************************************************************)
EXTENDS Naturals, Sequences, FiniteSets

VARIABLES
    sheets,        \* line 79: the module-level spreadsheet client handle
    authPc,        \* position of the startup IIFE of lines 81-89
    sheetsWrites,  \* history: who assigned `sheets`, in order
    pc,            \* per request: position of the async handler of line 104
    body,          \* per request: req.body
    cleaned,       \* per request: the local cleanPhone of line 118
    calls,         \* per request: history of the external calls it issued
    responses,     \* per request: the responses written to res, in order
    escaped,       \* per request: an exception left the handler
    sheetRows,     \* the external spreadsheet: rows appended so far
    outbox,        \* the external mailbox: mails delivered so far
    phoneIn,       \* normalisation harness: the phone string under test
    phoneOut,      \* normalisation harness: the last result
    applied        \* normalisation harness: how often cleanPhone was applied

vars == <<sheets, authPc, sheetsWrites, pc, body, cleaned, calls, responses,
          escaped, sheetRows, outbox, phoneIn, phoneOut, applied>>

handlerVars == <<sheets, authPc, sheetsWrites, pc, body, cleaned, calls,
                 responses, escaped, sheetRows, outbox>>

harnessVars == <<phoneIn, phoneOut, applied>>

(***************************************************************************)
(* Bounds                                                                  *)
(***************************************************************************)
NumReq == 2

MaxLen == 3

Reqs == 1 .. NumReq

(***************************************************************************)
(* JavaScript values                                                       *)
(***************************************************************************)
Undefined == [t |-> "undefined", s |-> <<>>, n |-> 0]

Str(chars) == [t |-> "string", s |-> chars, n |-> 0]

Num(k) == [t |-> "number", s |-> <<>>, n |-> k]

\* JavaScript's ToBoolean, as the `!x` tests of line 110 apply it.
Truthy(v) ==
    CASE v.t = "undefined" -> FALSE
      [] v.t = "string"    -> v.s # <<>>
      [] v.t = "number"    -> v.n # 0

IsNonEmptyString(v) == v.t = "string" /\ v.s # <<>>

Fields == {"name", "phone", "service", "date", "time"}

Jane == Str(<<"J", "a", "n", "e">>)

Audit == Str(<<"A", "u", "d", "i", "t">>)

May1 == Str(<<"2", "0", "2", "4", "-", "0", "5", "-", "0", "1">>)

TenAM == Str(<<"1", "0", ":", "0", "0">>)

Phone5551234 == Str(<<"5", "5", "5", "-", "1", "2", "3", "4">>)

ExamplePhone ==
    <<"+", "1", " ", "(", "5", "5", "5", ")", " ", "1", "2", "3", "-",
      "4", "5", "6", "7">>

\* A phone sent as a JSON number rather than a string.
PhoneNumber == Num(5551234)

Zero == Num(0)

ScenarioBody ==
    [name |-> Jane, phone |-> Phone5551234, service |-> Audit, date |-> May1,
     time |-> TenAM]

EmptyBody == [f \in Fields |-> Undefined]

\* What a field of the parsed body is driven with: absent, the empty string,
\* the JSON number 0, its scenario value; the phone also a non-zero JSON
\* number and a second string.
FieldValues(f) ==
    {Undefined, Str(<<>>), Zero, ScenarioBody[f]}
    \cup (IF f = "phone" THEN {PhoneNumber, Str(ExamplePhone)} ELSE {})

\* The request bodies the handler is driven with: the scenario body with any
\* one field replaced by any of its values, the empty object {}, and a body
\* whose name is absent and whose phone is a number.
Bodies ==
    UNION {{[ScenarioBody EXCEPT ![f] = v] : v \in FieldValues(f)} : f \in Fields}
    \cup {EmptyBody, [ScenarioBody EXCEPT !.name = Undefined, !.phone = PhoneNumber]}

AllStrings(b) == \A f \in Fields : IsNonEmptyString(b[f])

(***************************************************************************)
(* Line 118: phone.replace(/[^0-9+]/g, "")                                 *)
(***************************************************************************)
Digits == {"0", "1", "2", "3", "4", "5", "6", "7", "8", "9"}

KeptByRegex(c) == c \in Digits \cup {"+"}

\* Without the g flag replace() removes the first match only.
RECURSIVE DropFirstMatch(_)
DropFirstMatch(str) ==
    IF str = <<>> THEN <<>>
    ELSE IF ~KeptByRegex(Head(str)) THEN Tail(str)
    ELSE <<Head(str)>> \o DropFirstMatch(Tail(str))

cleanPhone(str) == SelectSeq(str, KeptByRegex)

(***************************************************************************)
(* Responses (lines 111-115, 148-151, 154-157)                             *)
(***************************************************************************)
ValidationError(b) ==
    [status |-> 400,
     json |-> [success |-> FALSE, message |-> "All fields are required",
               received |-> b]]

BookingSaved ==
    [status |-> 200,
     json |-> [success |-> TRUE, message |-> "Booking saved & email sent"]]

ServerError ==
    [status |-> 500,
     json |-> [success |-> FALSE, message |-> "Server error"]]

(***************************************************************************)
(* Startup: lines 79-89                                                    *)
(***************************************************************************)
Init ==
    /\ sheets = "undefined"
    /\ authPc = "authorizing"
    /\ sheetsWrites = <<>>
    /\ pc = [r \in Reqs |-> "idle"]
    /\ body = [r \in Reqs |-> EmptyBody]
    /\ cleaned = [r \in Reqs |-> Undefined]
    /\ calls = [r \in Reqs |-> <<>>]
    /\ responses = [r \in Reqs |-> <<>>]
    /\ escaped = [r \in Reqs |-> FALSE]
    /\ sheetRows = <<>>
    /\ outbox = <<>>
    /\ phoneIn = <<>>
    /\ phoneOut = <<>>
    /\ applied = 0

\* await auth.authorize() resolves: lines 84-85.
AuthorizeResolves ==
    /\ authPc = "authorizing"
    /\ sheets' = "client"
    /\ sheetsWrites' = Append(sheetsWrites, "startup")
    /\ authPc' = "connected"
    /\ UNCHANGED <<pc, body, cleaned, calls, responses, escaped, sheetRows,
                   outbox, harnessVars>>

\* await auth.authorize() rejects: lines 86-88; `sheets` is left unassigned.
AuthorizeRejects ==
    /\ authPc = "authorizing"
    /\ authPc' = "failed"
    /\ UNCHANGED <<sheets, sheetsWrites, pc, body, cleaned, calls, responses,
                   escaped, sheetRows, outbox, harnessVars>>

(***************************************************************************)
(* The handler: lines 104-159                                              *)
(***************************************************************************)
\* Line 110, negated: the request passes validation.
ValidWithoutTime(b) ==
    Truthy(b.name) /\ Truthy(b.phone) /\ Truthy(b.service) /\ Truthy(b.date)

Valid(b) ==
    /\ Truthy(b.name)
    /\ Truthy(b.phone)
    /\ Truthy(b.service)
    /\ Truthy(b.date)
    /\ Truthy(b.time)

\* Line 92: `if (!sheets) return;`
NeverSkipAppend(sh) == FALSE

SkipAppend(sh) == sh = "undefined"

\* Line 98: the row handed to values.append.
SheetRow(r) ==
    [req |-> r,
     values |-> <<body[r].name, body[r].phone, body[r].service, body[r].date,
                  body[r].time, "toLocaleString">>]

\* Lines 122-146: the mail handed to sendMail.
Mail(r) ==
    [req |-> r, to |-> "ADMIN_EMAIL", name |-> body[r].name,
     phone |-> body[r].phone, service |-> body[r].service,
     date |-> body[r].date, time |-> body[r].time, tel |-> cleaned[r]]

Has(seq, e) == \E i \in 1 .. Len(seq) : seq[i] = e

Count(seq, e) == Cardinality({i \in 1 .. Len(seq) : seq[i] = e})

AppendInFlight(r) ==
    /\ Has(calls[r], "append:start")
    /\ ~Has(calls[r], "append:ok")
    /\ ~Has(calls[r], "append:fail")

SendInFlight(r) ==
    /\ Has(calls[r], "send:start")
    /\ ~Has(calls[r], "send:ok")
    /\ ~Has(calls[r], "send:fail")

\* An exception thrown inside the try block that is not caught by line 152.
Uncaught(r) ==
    /\ escaped' = [escaped EXCEPT ![r] = TRUE]
    /\ pc' = [pc EXCEPT ![r] = "done"]
    /\ UNCHANGED responses

\* Lines 152-158: an exception thrown inside the try block.
Catch(r) ==
    /\ responses' = [responses EXCEPT ![r] = Append(@, ServerError)]
    /\ pc' = [pc EXCEPT ![r] = "done"]
    /\ UNCHANGED escaped

\* Line 120 without its await: sendMail is called while the append is pending.
ReceiveNoAwait(r, b) ==
    /\ pc[r] = "idle"
    /\ body' = [body EXCEPT ![r] = b]
    /\ IF ~Valid(b)
       THEN /\ responses' = [responses EXCEPT ![r] = Append(@, ValidationError(b))]
            /\ pc' = [pc EXCEPT ![r] = "done"]
            /\ UNCHANGED <<cleaned, calls, escaped>>
       ELSE IF b.phone.t # "string"
       THEN /\ Catch(r)
            /\ UNCHANGED <<cleaned, calls>>
       ELSE /\ cleaned' = [cleaned EXCEPT ![r] = Str(cleanPhone(b.phone.s))]
            /\ calls' = [calls EXCEPT ![r] =
                            IF SkipAppend(sheets) THEN Append(@, "send:start")
                            ELSE @ \o <<"append:start", "send:start">>]
            /\ pc' = [pc EXCEPT ![r] = "awaitSend"]
            /\ UNCHANGED <<responses, escaped>>
    /\ UNCHANGED <<sheets, authPc, sheetsWrites, sheetRows, outbox, harnessVars>>

\* Lines 105-120: from the request's arrival to the first await.
Receive(r, b) ==
    /\ pc[r] = "idle"
    /\ body' = [body EXCEPT ![r] = b]
    /\ IF ~Valid(b)
       THEN \* lines 110-116
            /\ responses' = [responses EXCEPT ![r] = Append(@, ValidationError(b))]
            /\ pc' = [pc EXCEPT ![r] = "done"]
            /\ UNCHANGED <<cleaned, calls, escaped>>
       ELSE IF b.phone.t # "string"
       THEN \* line 118: phone.replace is not a function
            /\ Catch(r)
            /\ UNCHANGED <<cleaned, calls>>
       ELSE /\ cleaned' = [cleaned EXCEPT ![r] = Str(cleanPhone(b.phone.s))]
            /\ calls' = [calls EXCEPT ![r] =
                            IF SkipAppend(sheets) THEN @
                            ELSE Append(@, "append:start")]
            /\ pc' = [pc EXCEPT ![r] = "awaitSave"]
            /\ UNCHANGED <<responses, escaped>>
    /\ UNCHANGED <<sheets, authPc, sheetsWrites, sheetRows, outbox, harnessVars>>

\* Line 120 resumes after saveToGoogleSheet returned at line 92; line 122
\* calls sendMail.
SaveSkipped(r) ==
    /\ pc[r] = "awaitSave"
    /\ ~AppendInFlight(r)
    /\ calls' = [calls EXCEPT ![r] = Append(@, "send:start")]
    /\ pc' = [pc EXCEPT ![r] = "awaitSend"]
    /\ UNCHANGED <<sheets, authPc, sheetsWrites, body, cleaned, responses,
                   escaped, sheetRows, outbox, harnessVars>>

\* Lines 93-100 resolve, line 120 resumes, line 122 calls sendMail.
AppendResolves(r) ==
    /\ pc[r] = "awaitSave"
    /\ AppendInFlight(r)
    /\ sheetRows' = Append(sheetRows, SheetRow(r))
    /\ calls' = [calls EXCEPT ![r] = @ \o <<"append:ok", "send:start">>]
    /\ pc' = [pc EXCEPT ![r] = "awaitSend"]
    /\ UNCHANGED <<sheets, authPc, sheetsWrites, body, cleaned, responses,
                   escaped, outbox, harnessVars>>

\* The append's failure caught and logged next to line 120, the handler going on.
AppendRejectsSwallowed(r) ==
    /\ pc[r] = "awaitSave"
    /\ AppendInFlight(r)
    /\ calls' = [calls EXCEPT ![r] = @ \o <<"append:fail", "send:start">>]
    /\ pc' = [pc EXCEPT ![r] = "awaitSend"]
    /\ UNCHANGED <<sheets, authPc, sheetsWrites, body, cleaned, responses,
                   escaped, sheetRows, outbox, harnessVars>>

\* Lines 93-100 throw: the await of line 120 throws into line 152.
AppendRejects(r) ==
    /\ pc[r] = "awaitSave"
    /\ AppendInFlight(r)
    /\ calls' = [calls EXCEPT ![r] = Append(@, "append:fail")]
    /\ Catch(r)
    /\ UNCHANGED <<sheets, authPc, sheetsWrites, body, cleaned, sheetRows,
                   outbox, harnessVars>>

\* Line 122 resolves: lines 148-151.
SendResolves(r) ==
    /\ pc[r] = "awaitSend"
    /\ SendInFlight(r)
    /\ outbox' = Append(outbox, Mail(r))
    /\ calls' = [calls EXCEPT ![r] = Append(@, "send:ok")]
    /\ responses' = [responses EXCEPT ![r] = Append(@, BookingSaved)]
    /\ pc' = [pc EXCEPT ![r] = "done"]
    /\ UNCHANGED <<sheets, authPc, sheetsWrites, body, cleaned, escaped,
                   sheetRows, harnessVars>>

\* The catch block deleting the row the request appended.
SendRejectsRollback(r) ==
    /\ pc[r] = "awaitSend"
    /\ SendInFlight(r)
    /\ calls' = [calls EXCEPT ![r] = Append(@, "send:fail")]
    /\ Catch(r)
    /\ LET Keep(row) == row.req # r
       IN sheetRows' = SelectSeq(sheetRows, Keep)
    /\ UNCHANGED <<sheets, authPc, sheetsWrites, body, cleaned, outbox,
                   harnessVars>>

\* Line 122 throws into line 152.
SendRejects(r) ==
    /\ pc[r] = "awaitSend"
    /\ SendInFlight(r)
    /\ calls' = [calls EXCEPT ![r] = Append(@, "send:fail")]
    /\ Catch(r)
    /\ UNCHANGED <<sheets, authPc, sheetsWrites, body, cleaned, sheetRows,
                   outbox, harnessVars>>

Next ==
    \/ AuthorizeResolves
    \/ AuthorizeRejects
    \/ \E r \in Reqs : \E b \in Bodies : Receive(r, b)
    \/ \E r \in Reqs : SaveSkipped(r)
    \/ \E r \in Reqs : AppendResolves(r)
    \/ \E r \in Reqs : AppendRejects(r)
    \/ \E r \in Reqs : SendResolves(r)
    \/ \E r \in Reqs : SendRejects(r)

Spec == Init /\ [][Next]_vars

(***************************************************************************)
(* Normalisation harness: line 118 applied to arbitrary phone strings      *)
(***************************************************************************)
Alphabet == {"+", "1", "5", "-", " "}

RECURSIVE StringsUpTo(_)
StringsUpTo(k) ==
    IF k = 0 THEN {<<>>}
    ELSE LET shorter == StringsUpTo(k - 1)
         IN shorter \cup {Append(str, c) : str \in shorter, c \in Alphabet}

ExampleClean == <<"+", "1", "5", "5", "5", "1", "2", "3", "4", "5", "6", "7">>

PhoneInputs == StringsUpTo(MaxLen) \cup {ExamplePhone, Phone5551234.s}

PhoneInit ==
    /\ sheets = "undefined"
    /\ authPc = "authorizing"
    /\ sheetsWrites = <<>>
    /\ pc = [r \in Reqs |-> "idle"]
    /\ body = [r \in Reqs |-> EmptyBody]
    /\ cleaned = [r \in Reqs |-> Undefined]
    /\ calls = [r \in Reqs |-> <<>>]
    /\ responses = [r \in Reqs |-> <<>>]
    /\ escaped = [r \in Reqs |-> FALSE]
    /\ sheetRows = <<>>
    /\ outbox = <<>>
    /\ phoneIn \in PhoneInputs
    /\ phoneOut = <<>>
    /\ applied = 0

\* const cleanPhone = phone.replace(...) on the submitted phone.
Normalize ==
    /\ applied = 0
    /\ phoneOut' = cleanPhone(phoneIn)
    /\ applied' = 1
    /\ UNCHANGED <<phoneIn, handlerVars>>

\* The same replace applied to an already normalised phone.
NormalizeAgain ==
    /\ applied = 1
    /\ phoneOut' = cleanPhone(phoneOut)
    /\ applied' = 2
    /\ UNCHANGED <<phoneIn, handlerVars>>

PhoneNext == Normalize \/ NormalizeAgain

PhoneSpec == PhoneInit /\ [][PhoneNext]_vars

(***************************************************************************)
(* Properties                                                              *)
(***************************************************************************)
MissingOrEmpty(v) == v = Undefined \/ v = Str(<<>>)

SomeFieldMissing(b) == \E f \in Fields : MissingOrEmpty(b[f])

\* Missing or empty as line 110 tests it: undefined, "", or another value
\* JavaScript takes for false (the JSON number 0).
SomeFieldAbsent(b) == \E f \in Fields : ~Truthy(b[f])

RowsOf(r) == Cardinality({i \in 1 .. Len(sheetRows) : sheetRows[i].req = r})

MailsOf(r) == Cardinality({i \in 1 .. Len(outbox) : outbox[i].req = r})

Statuses(r) == [i \in 1 .. Len(responses[r]) |-> responses[r][i].status]

\* C1: a request in which one of name, phone, service, date, time is missing
\* or empty is answered 400, and neither the spreadsheet append nor the email
\* send is ever invoked for it.
C1_MissingFieldIs400 ==
    \A r \in Reqs :
        (pc[r] # "idle" /\ SomeFieldMissing(body[r])) =>
            /\ pc[r] = "done"
            /\ Statuses(r) = <<400>>
            /\ calls[r] = <<>>
            /\ RowsOf(r) = 0
            /\ MailsOf(r) = 0

C1_Witness ==
    \E r \in Reqs :
        /\ pc[r] = "done"
        /\ body[r].phone = Undefined
        /\ body[r].name = Jane
        /\ Statuses(r) = <<400>>

\* C2 as stated: a request with all five fields non-empty strings has, once
\* answered, attempted exactly one append and exactly one send, the append
\* completed before the send began.
C2_ExactlyOneAppendAndSend ==
    \A r \in Reqs :
        (pc[r] = "done" /\ AllStrings(body[r])) =>
            /\ Count(calls[r], "append:start") = 1
            /\ Count(calls[r], "send:start") = 1
            /\ SubSeq(calls[r], 1, 3) = <<"append:start", "append:ok", "send:start">>

CallsAt(r) ==
    CASE pc[r] = "awaitSave" -> {<<>>, <<"append:start">>}
      [] pc[r] = "awaitSend" -> {<<"send:start">>,
                                 <<"append:start", "append:ok", "send:start">>}
      [] pc[r] = "done"      -> {<<"append:start", "append:fail">>,
                                 <<"send:start", "send:ok">>,
                                 <<"send:start", "send:fail">>,
                                 <<"append:start", "append:ok", "send:start", "send:ok">>,
                                 <<"append:start", "append:ok", "send:start", "send:fail">>}

SequentialCalls(r) ==
    /\ calls[r] \in CallsAt(r)
    /\ ~(AppendInFlight(r) /\ SendInFlight(r))

\* C2 amended: a request with all five fields non-empty strings attempts at
\* most one append and at most one send: the append exactly when the
\* spreadsheet client is set as the handler reaches that step, the send
\* exactly when the append step did not throw, and only after the append has
\* completed; the two calls are never in flight together.
C2_SequentialAtMostOnce ==
    [][\A r \in Reqs :
          (pc'[r] # "idle" /\ AllStrings(body'[r])) =>
              /\ SequentialCalls(r)'
              /\ pc[r] = "idle" =>
                    (Has(calls'[r], "append:start") <=> sheets = "client")]_vars

C2_Witness ==
    \E r \in Reqs :
        /\ AllStrings(body[r])
        /\ pc[r] = "done"
        /\ calls[r] = <<"append:start", "append:ok", "send:start", "send:ok">>

\* C3: while the spreadsheet client is unset (authorization has not
\* succeeded), a request with all fields non-empty strings attempts no
\* append, attempts exactly one send, and is answered 200 "Booking saved &
\* email sent" when that send succeeds; it fails only if the send throws.
C3_UnavailableSheetSkipped ==
    \A r \in Reqs :
        (sheets = "undefined" /\ pc[r] # "idle" /\ AllStrings(body[r])) =>
            /\ ~Has(calls[r], "append:start")
            /\ RowsOf(r) = 0
            /\ pc[r] = "awaitSave" => calls[r] = <<>>
            /\ pc[r] = "awaitSend" => calls[r] = <<"send:start">>
            /\ pc[r] = "done" =>
                  \/ calls[r] = <<"send:start", "send:ok">>
                        /\ responses[r] = <<BookingSaved>>
                  \/ calls[r] = <<"send:start", "send:fail">>
                        /\ responses[r] = <<ServerError>>

C3_Witness ==
    \E r \in Reqs :
        /\ authPc = "failed"
        /\ AllStrings(body[r])
        /\ calls[r] = <<"send:start", "send:ok">>
        /\ responses[r] = <<BookingSaved>>

\* C4: when the send throws after the append succeeded, the answer is 500
\* "Server error", the appended row stays in the sheet, and neither call is
\* made again.
C4_SendFailureKeepsRow ==
    \A r \in Reqs :
        (Has(calls[r], "append:ok") /\ Has(calls[r], "send:fail")) =>
            /\ pc[r] = "done"
            /\ responses[r] = <<ServerError>>
            /\ calls[r] = <<"append:start", "append:ok", "send:start", "send:fail">>
            /\ RowsOf(r) = 1
            /\ MailsOf(r) = 0

C4_Witness ==
    \E r \in Reqs :
        /\ calls[r] = <<"append:start", "append:ok", "send:start", "send:fail">>
        /\ responses[r] = <<ServerError>>
        /\ RowsOf(r) = 1

\* C5: when the append throws, the answer is 500 "Server error", the send is
\* never attempted for that request and the append is not made again.
C5_AppendFailureIs500 ==
    \A r \in Reqs :
        Has(calls[r], "append:fail") =>
            /\ pc[r] = "done"
            /\ responses[r] = <<ServerError>>
            /\ calls[r] = <<"append:start", "append:fail">>
            /\ MailsOf(r) = 0

C5_Witness ==
    \E r \in Reqs :
        /\ calls[r] = <<"append:start", "append:fail">>
        /\ responses[r] = <<ServerError>>
        /\ pc[r] = "done"

StepThrew(r) ==
    \/ body[r].phone.t # "string"
    \/ Has(calls[r], "append:fail")
    \/ Has(calls[r], "send:fail")

\* C6: no exception leaves the handler and no request is answered twice; a
\* request the handler has finished with has exactly one response: 400 when
\* some field is missing or empty (fails the test of line 110), 200 when all
\* are present and no step threw, 500 when a step after validation threw (the
\* phone normalisation, the append or the send).
C6_OneResponseNothingEscapes ==
    \A r \in Reqs :
        /\ ~escaped[r]
        /\ Len(responses[r]) <= 1
        /\ pc[r] # "done" => responses[r] = <<>>
        /\ pc[r] = "done" =>
              /\ Len(responses[r]) = 1
              /\ responses[r][1].status \in {400, 200, 500}
              /\ SomeFieldMissing(body[r]) => responses[r][1].status = 400
              /\ responses[r][1].status = 400 <=> SomeFieldAbsent(body[r])
              /\ responses[r][1].status = 200 <=>
                    (~SomeFieldAbsent(body[r]) /\ ~StepThrew(r))
              /\ responses[r][1].status = 500 <=>
                    (~SomeFieldAbsent(body[r]) /\ StepThrew(r))

C6_Witness ==
    \E r \in Reqs :
        /\ pc[r] = "done"
        /\ body[r].phone = PhoneNumber
        /\ responses[r] = <<ServerError>>
        /\ calls[r] = <<>>

\* C7: the normalised phone holds only decimal digits and at most one '+',
\* and a '+' only as its first character.
C7_DigitsAndLeadingPlus ==
    applied >= 1 =>
        \A i \in 1 .. Len(phoneOut) :
            /\ phoneOut[i] \in Digits \cup {"+"}
            /\ phoneOut[i] = "+" => i = 1

\* C8: normalising an already normalised phone returns it unchanged, and
\* "+1 (555) 123-4567" normalises to "+15551234567".
C8_Idempotent ==
    /\ applied = 2 => phoneOut = cleanPhone(phoneIn)
    /\ (applied >= 1 /\ phoneIn = ExamplePhone) => phoneOut = ExampleClean

C8_Witness ==
    /\ applied = 2
    /\ phoneIn = <<"5", "-", " ">>
    /\ phoneOut = <<"5">>

\* C9: the body of a 400 response is exactly {success:false, message:"All
\* fields are required"}, with no part of the submitted body.
C9_ValidationPayloadExact ==
    \A r \in Reqs :
        \A i \in 1 .. Len(responses[r]) :
            responses[r][i].status = 400 =>
                responses[r][i].json =
                    [success |-> FALSE, message |-> "All fields are required"]

\* C10: the spreadsheet client handle is written at most once and only by
\* the startup task; once authorization has failed no request has attempted
\* an append; and once authorization has succeeded every request with all
\* fields non-empty strings that is past the append step, also one handled
\* while authorization was pending, has attempted its append.
C10_SkipOnlyAfterFailure ==
    /\ Len(sheetsWrites) <= 1
    /\ \A i \in 1 .. Len(sheetsWrites) : sheetsWrites[i] = "startup"
    /\ authPc = "failed" =>
          \A r \in Reqs : ~Has(calls[r], "append:start")
    /\ authPc = "connected" =>
          \A r \in Reqs :
              (pc[r] # "idle" /\ AllStrings(body[r])) =>
                  Has(calls[r], "append:start")

====
